---- MODULE Spec2Model ----
(***************************************************************************)
(* Model of crates/swift-bridge-ir/src/parsed_extern_fn.rs: the lowering   *)
(* operations of ParsedExternFn (ABI parameter list, call arguments, C     *)
(* header parameters and return type) and its two name derivations.        *)
(*                                                                         *)
(* Token streams are modelled as sequences of entries, one per `quote!`    *)
(* pushed onto the vector that `#(#x),*` later joins.  The header string   *)
(* is a sequence of tokens in which "," stands for the ", " separator      *)
(* of `join`.  Names are TLC strings, concatenated as format! does.        *)
(***************************************************************************)
EXTENDS Naturals, Sequences, FiniteSets, TLC

VARIABLES func, rust_params, call_args, c_params, c_return,
          functions, link_names, prefixed_names

vars == <<func, rust_params, call_args, c_params, c_return,
          functions, link_names, prefixed_names>>

(***************************************************************************)
(* Bounds                                                                  *)
(***************************************************************************)
MaxParams == 2

MaxIdentLen == 2

(***************************************************************************)
(* Option<T>: None is the empty sequence, Some(x) a one-element sequence.  *)
(***************************************************************************)
None == <<>>

Some(x) == <<x>>

IsSome(o) == Len(o) = 1

(***************************************************************************)
(* syn::Type, restricted to the shapes the code distinguishes:             *)
(* Type::Path, Type::Reference (with its mutability and element), and      *)
(* one other shape (Type::Tuple) standing for the `_` arms.                *)
(***************************************************************************)
TypePath(n) == [shape |-> "Path", mutability |-> FALSE, name |-> n]

TypeReference(m, n) == [shape |-> "Reference", mutability |-> m, name |-> n]

TypeTuple(n) == [shape |-> "Tuple", mutability |-> FALSE, name |-> n]

BuiltInNames == {"u8", "u32"}

OpaqueNames == {"Foo"}

Types ==
    {TypePath(n) : n \in BuiltInNames \cup OpaqueNames}
      \cup {TypeReference(m, n) : m \in BOOLEAN, n \in OpaqueNames}
      \cup {TypeTuple(n) : n \in OpaqueNames}

(***************************************************************************)
(* BuiltInType::with_type and BuiltInType::to_c (crate::build_in_types).   *)
(* A path naming a numeric scalar is built in; everything else is opaque.  *)
(***************************************************************************)
with_type(ty) ==
    IF ty.shape = "Path" /\ ty.name \in BuiltInNames THEN Some(ty.name) ELSE None

to_c(built_in) ==
    CASE built_in = "u8" -> "uint8_t"
      [] built_in = "u32" -> "uint32_t"

(***************************************************************************)
(* syn::FnArg.  A Receiver is `self`, `&self` or `&mut self`; a Typed      *)
(* argument is `pat: ty`, which covers `self: Foo`.                        *)
(***************************************************************************)
Receiver(r, m) ==
    [kind |-> "Receiver", reference |-> r, mutability |-> m,
     pat |-> "self", ty |-> TypePath("Self")]

Typed(p, t) ==
    [kind |-> "Typed", reference |-> FALSE, mutability |-> FALSE,
     pat |-> p, ty |-> t]

Receivers == {Receiver(FALSE, FALSE), Receiver(TRUE, FALSE), Receiver(TRUE, TRUE)}

PatNames == {"self", "a", "b"}

TypedArgs == {Typed(p, t) : p \in PatNames, t \in Types}

\* Argument lists of length n; a syntactic receiver only in first position.
RECURSIVE InputsOfLen(_)
InputsOfLen(n) ==
    IF n = 0 THEN {<<>>}
    ELSE IF n = 1 THEN {<<a>> : a \in Receivers \cup TypedArgs}
    ELSE {Append(s, a) : s \in InputsOfLen(n - 1), a \in TypedArgs}

Inputs == UNION {InputsOfLen(n) : n \in 0..MaxParams}

Outputs == {None, Some(TypePath("u8")), Some(TypePath("Foo"))}

HostLangs == {"Rust", "Swift"}

\* ParsedExternFn::is_method: sig.receiver() is the first input when it is a
\* Receiver or a Typed argument whose pattern is the identifier `self`.
is_method(f) ==
    /\ Len(f.inputs) > 0
    /\ \/ f.inputs[1].kind = "Receiver"
       \/ f.inputs[1].pat = "self"

\* struct ParsedExternFn, for the lowering operations.
ParsedExternFns ==
    {f \in [inputs : Inputs, output : Outputs,
            associated_type : {None, Some("Foo")}, host_lang : HostLangs] :
        is_method(f) => IsSome(f.associated_type)}

(***************************************************************************)
(* Results of an operation: not yet called, returned, or panicked.         *)
(***************************************************************************)
Unset == [status |-> "unset", val |-> <<>>]

Ok(v) == [status |-> "ok", val |-> v]

Panic == [status |-> "panic", val |-> <<>>]

RECURSIVE ConcatAll(_)
ConcatAll(ss) ==
    IF Len(ss) = 0 THEN <<>> ELSE Head(ss) \o ConcatAll(Tail(ss))

(***************************************************************************)
(* to_rust_param_names_and_types                                           *)
(***************************************************************************)
\* One iteration of the loop: the entry pushed for arg, or a panic.
RustParamNoRename(arg, host_type) ==
    IF arg.kind = "Receiver"
    THEN IF IsSome(host_type)
         THEN Ok([name |-> "this", ptr |-> TRUE, ty |-> TypePath(host_type[1])])
         ELSE Panic
    ELSE IF IsSome(with_type(arg.ty))
    THEN Ok([name |-> arg.pat, ptr |-> FALSE, ty |-> arg.ty])
    ELSE CASE arg.ty.shape = "Reference" ->
                Ok([name |-> arg.pat, ptr |-> TRUE, ty |-> TypePath(arg.ty.name)])
           [] arg.ty.shape = "Path" ->
                Ok([name |-> arg.pat, ptr |-> TRUE, ty |-> arg.ty])
           [] OTHER -> Panic

RustParam(arg, host_type) ==
    IF arg.kind = "Receiver"
    THEN IF IsSome(host_type)
         THEN Ok([name |-> "this", ptr |-> TRUE, ty |-> TypePath(host_type[1])])
         ELSE Panic
    ELSE IF IsSome(with_type(arg.ty))
    THEN Ok([name |-> arg.pat, ptr |-> FALSE, ty |-> arg.ty])
    ELSE LET arg_name == IF arg.pat = "self" THEN "this" ELSE arg.pat
         IN  CASE arg.ty.shape = "Reference" ->
                    Ok([name |-> arg_name, ptr |-> TRUE, ty |-> TypePath(arg.ty.name)])
               [] arg.ty.shape = "Path" ->
                    Ok([name |-> arg_name, ptr |-> TRUE, ty |-> arg.ty])
               [] OTHER -> Panic

to_rust_param_names_and_types(f) ==
    LET params == [i \in 1..Len(f.inputs) |-> RustParam(f.inputs[i], f.associated_type)]
    IN  IF \E i \in 1..Len(params) : params[i].status = "panic"
        THEN Panic
        ELSE Ok([i \in 1..Len(params) |-> params[i].val])

(***************************************************************************)
(* to_rust_call_args                                                       *)
(***************************************************************************)
\* One iteration of the loop: the entries (none or one) pushed for arg.
RustCallArgKeepSelf(arg) ==
    IF arg.kind = "Receiver" THEN <<>>
    ELSE <<[expr |-> "pat", name |-> arg.pat]>>

RustCallArg(arg) ==
    IF arg.kind = "Receiver" THEN <<>>
    ELSE IF arg.pat = "self" THEN <<>>
    ELSE <<[expr |-> "pat", name |-> arg.pat]>>

RustCallArgsUnwrap(f) ==
    LET rest == ConcatAll([i \in 1..Len(f.inputs) |-> RustCallArg(f.inputs[i])])
    IN  IF f.host_lang = "Swift" /\ is_method(f)
        THEN Ok(<<[expr |-> "unwrap", name |-> "self"]>> \o rest)
        ELSE Ok(rest)

to_rust_call_args(f) ==
    Ok(ConcatAll([i \in 1..Len(f.inputs) |-> RustCallArg(f.inputs[i])]))

(***************************************************************************)
(* to_c_header_params                                                      *)
(***************************************************************************)
\* One iteration of the loop: the tokens of the string pushed for arg.
CHeaderParam(arg) ==
    IF arg.kind = "Receiver" THEN <<"void*", "self">>
    ELSE IF arg.pat = "self" THEN <<"void*", "self">>
    ELSE LET ty == IF IsSome(with_type(arg.ty))
                   THEN to_c(with_type(arg.ty)[1])
                   ELSE arg.pat
         IN  <<ty, arg.pat>>

\* params.join(", ")
RECURSIVE Join(_)
Join(params) ==
    IF Len(params) = 0 THEN <<>>
    ELSE IF Len(params) = 1 THEN params[1]
    ELSE params[1] \o <<",">> \o Join(Tail(params))

CHeaderParamsDropReceiver(f) ==
    LET params == [i \in 1..Len(f.inputs) |-> CHeaderParam(f.inputs[i])]
        kept == SelectSeq(params, LAMBDA p : p # <<"void*", "self">>)
    IN  IF Len(kept) = 0 THEN Ok(<<"void">>) ELSE Ok(Join(kept))

to_c_header_params(f) ==
    LET params == [i \in 1..Len(f.inputs) |-> CHeaderParam(f.inputs[i])]
    IN  IF Len(params) = 0 THEN Ok(<<"void">>) ELSE Ok(Join(params))

(***************************************************************************)
(* to_c_header_return                                                      *)
(***************************************************************************)
to_c_header_return(f) ==
    IF f.output = None THEN Ok(<<"void">>)
    ELSE IF IsSome(with_type(f.output[1]))
    THEN Ok(<<to_c(with_type(f.output[1])[1])>>)
    ELSE Ok(<<"void*">>)

(***************************************************************************)
(* link_name and prefixed_fn_name                                          *)
(***************************************************************************)
SWIFT_BRIDGE_PREFIX == "__swift_bridge__"

link_name_no_separator(f) ==
    LET host_type == IF IsSome(f.associated_type)
                     THEN "$" \o f.associated_type[1] ELSE ""
    IN  SWIFT_BRIDGE_PREFIX \o host_type \o f.ident

link_name(f) ==
    LET host_type == IF IsSome(f.associated_type)
                     THEN "$" \o f.associated_type[1] ELSE ""
    IN  SWIFT_BRIDGE_PREFIX \o host_type \o "$" \o f.ident

prefixed_fn_name(f) ==
    LET host_type_prefix == IF IsSome(f.associated_type)
                            THEN f.associated_type[1] \o "_" ELSE ""
    IN  SWIFT_BRIDGE_PREFIX \o host_type_prefix \o f.ident

\* Identifiers over a two-letter alphabet; `_` alone is not an identifier.
Alphabet == {"a", "_"}

RECURSIVE IdentsOfLen(_)
IdentsOfLen(n) ==
    IF n = 0 THEN {""} ELSE {c \o s : c \in Alphabet, s \in IdentsOfLen(n - 1)}

Idents == UNION {IdentsOfLen(n) : n \in 1..MaxIdentLen} \ {"_"}

\* The fields of ParsedExternFn the name derivations read.
NamedFns == [associated_type : {None} \cup {Some(t) : t \in Idents}, ident : Idents]

\* The name derivations are compared between two functions of a module.
Fns == {1, 2}

NoFunc == [inputs |-> <<>>, output |-> None, associated_type |-> None,
           host_lang |-> "Rust"]

(***************************************************************************)
(* Specification of the lowering operations on one descriptor.  The        *)
(* descriptor is immutable; downstream generators call the operations      *)
(* independently, in any order.                                            *)
(***************************************************************************)
Init ==
    /\ func \in ParsedExternFns
    /\ rust_params = Unset
    /\ call_args = Unset
    /\ c_params = Unset
    /\ c_return = Unset
    /\ functions = <<>>
    /\ link_names = <<>>
    /\ prefixed_names = <<>>

ToRustParamNamesAndTypes ==
    /\ rust_params = Unset
    /\ rust_params' = to_rust_param_names_and_types(func)
    /\ UNCHANGED <<func, call_args, c_params, c_return,
                   functions, link_names, prefixed_names>>

ToRustCallArgs ==
    /\ call_args = Unset
    /\ call_args' = to_rust_call_args(func)
    /\ UNCHANGED <<func, rust_params, c_params, c_return,
                   functions, link_names, prefixed_names>>

ToCHeaderParams ==
    /\ c_params = Unset
    /\ c_params' = to_c_header_params(func)
    /\ UNCHANGED <<func, rust_params, call_args, c_return,
                   functions, link_names, prefixed_names>>

ToCHeaderReturn ==
    /\ c_return = Unset
    /\ c_return' = to_c_header_return(func)
    /\ UNCHANGED <<func, rust_params, call_args, c_params,
                   functions, link_names, prefixed_names>>

Next ==
    \/ ToRustParamNamesAndTypes
    \/ ToRustCallArgs
    \/ ToCHeaderParams
    \/ ToCHeaderReturn

Spec == Init /\ [][Next]_vars

(***************************************************************************)
(* Specification of the name derivations over the functions of a module:   *)
(* two descriptors, each of which gets its link name and its prefixed      *)
(* identifier derived.                                                     *)
(***************************************************************************)
InitNames ==
    /\ func = NoFunc
    /\ rust_params = Unset
    /\ call_args = Unset
    /\ c_params = Unset
    /\ c_return = Unset
    /\ functions \in [Fns -> NamedFns]
    /\ link_names = [i \in Fns |-> None]
    /\ prefixed_names = [i \in Fns |-> None]

LinkName(i) ==
    /\ link_names[i] = None
    /\ link_names' = [link_names EXCEPT ![i] = Some(link_name(functions[i]))]
    /\ UNCHANGED <<func, rust_params, call_args, c_params, c_return,
                   functions, prefixed_names>>

PrefixedFnName(i) ==
    /\ prefixed_names[i] = None
    /\ prefixed_names' =
         [prefixed_names EXCEPT ![i] = Some(prefixed_fn_name(functions[i]))]
    /\ UNCHANGED <<func, rust_params, call_args, c_params, c_return,
                   functions, link_names>>

NextNames ==
    \/ \E i \in Fns : LinkName(i)
    \/ \E i \in Fns : PrefixedFnName(i)

SpecNames == InitNames /\ [][NextNames]_vars

(***************************************************************************)
(* Vocabulary of the properties                                            *)
(***************************************************************************)
inputs == func.inputs

Positions == 1..Len(inputs)

IsOpaque(ty) == with_type(ty) = None

\* A parameter that stands for `self`: the syntactic receiver or a typed
\* parameter whose pattern is the identifier `self`.
IsSelfParam(arg) == arg.kind = "Receiver" \/ arg.pat = "self"

\* The six receiver forms: self, &self, &mut self, self: T, self: &T,
\* self: &mut T, with T an opaque type.
IsReceiverForm(arg) ==
    \/ arg.kind = "Receiver"
    \/ /\ arg.kind = "Typed"
       /\ arg.pat = "self"
       /\ arg.ty.shape \in {"Path", "Reference"}
       /\ IsOpaque(arg.ty)

NonSelfPositions == {i \in Positions : ~IsSelfParam(inputs[i])}

\* The place of position i among the positions that are not `self`.
Rank(i) == Cardinality({j \in NonSelfPositions : j <= i})

\* The header string cut back into its comma-separated entries.
CommaPositions(text) == {i \in 1..Len(text) : text[i] = ","}

CommaAt(text, k) ==
    IF k = 0 THEN 0
    ELSE IF k > Cardinality(CommaPositions(text)) THEN Len(text) + 1
    ELSE CHOOSE i \in CommaPositions(text) :
           Cardinality({j \in CommaPositions(text) : j <= i}) = k

HeaderEntries(text) ==
    [k \in 1..(Cardinality(CommaPositions(text)) + 1) |->
        SubSeq(text, CommaAt(text, k - 1) + 1, CommaAt(text, k) - 1)]

\* The passing mode of a typed parameter.
PassingMode(arg) ==
    IF arg.ty.shape # "Reference" THEN "by_value"
    ELSE IF arg.ty.mutability THEN "by_mut_ref" ELSE "by_ref"

C2_CallArgsDerefOpaque ==
    call_args.status = "ok" =>
        \A i \in NonSelfPositions :
            /\ Rank(i) \in DOMAIN call_args.val
            /\ IF IsOpaque(inputs[i].ty)
               THEN call_args.val[Rank(i)].expr = "deref_" \o PassingMode(inputs[i])
               ELSE call_args.val[Rank(i)].expr = "pat"

(***************************************************************************)
(* C3: with an owning type, every receiver form is lowered in the ABI      *)
(* parameter list to a parameter named `this`, never `self`, whose type    *)
(* is a *mut pointer to the underlying type.                               *)
(***************************************************************************)
UnderlyingType(arg) ==
    IF arg.kind = "Receiver" THEN TypePath(func.associated_type[1])
    ELSE TypePath(arg.ty.name)

C3_ReceiverLoweredToThis ==
    (rust_params.status = "ok" /\ IsSome(func.associated_type)) =>
        \A i \in Positions :
            IsReceiverForm(inputs[i]) =>
                /\ rust_params.val[i].name = "this"
                /\ rust_params.val[i].ptr
                /\ rust_params.val[i].ty = UnderlyingType(inputs[i])

C3_Witness ==
    /\ rust_params.status = "ok"
    /\ Len(inputs) = 2
    /\ inputs[1] = Typed("self", TypeReference(TRUE, "Foo"))
    /\ inputs[2].pat = "a"
    /\ rust_params.val[1].name = "this"

(***************************************************************************)
(* C4: the call-argument list has no entry for the receiver in any of its  *)
(* forms: it is exactly the parameters not named `self`, in their          *)
(* original order, and is empty when the receiver is the only parameter.   *)
(***************************************************************************)
C4_CallArgsOmitReceiver ==
    call_args.status # "unset" =>
        /\ call_args.status = "ok"
        /\ Len(call_args.val) = Cardinality(NonSelfPositions)
        /\ \A i \in NonSelfPositions :
               call_args.val[Rank(i)].name = inputs[i].pat
        /\ (Len(inputs) = 1 /\ IsSelfParam(inputs[1])) => call_args.val = <<>>

C4_Witness ==
    /\ call_args.status = "ok"
    /\ Len(inputs) = 2
    /\ inputs[1] = Typed("self", TypePath("Foo"))
    /\ inputs[2].pat = "b"
    /\ Len(call_args.val) = 1

(***************************************************************************)
(* C5, as stated: when the implementation is hosted by the other runtime   *)
(* the receiver, or a parameter named `self`, contributes a handle         *)
(* unwrapping expression as first call argument.                           *)
(***************************************************************************)
HasSelfParam == \E i \in Positions : IsSelfParam(inputs[i])

FromParamAbi(entry, arg) ==
    /\ entry.name = (IF arg.pat = "self" /\ entry.ptr THEN "this" ELSE arg.pat)
    /\ entry.ty.name =
         (IF arg.kind = "Receiver" THEN func.associated_type[1] ELSE arg.ty.name)

FromParamHeader(entry, arg) ==
    /\ Len(entry) = 2
    /\ entry[2] = arg.pat

C6_AbiAndHeaderListsAligned ==
    (rust_params.status = "ok" /\ c_params.status = "ok" /\ Len(inputs) >= 1) =>
        /\ Len(rust_params.val) = Len(inputs)
        /\ Len(HeaderEntries(c_params.val)) = Len(rust_params.val)
        /\ \A i \in Positions :
               /\ FromParamAbi(rust_params.val[i], inputs[i])
               /\ FromParamHeader(HeaderEntries(c_params.val)[i], inputs[i])

C6_Witness ==
    /\ rust_params.status = "ok"
    /\ c_params.status = "ok"
    /\ Len(inputs) = 2
    /\ inputs[1].kind = "Receiver"
    /\ inputs[2].pat = "a"
    /\ Len(rust_params.val) = 2
    /\ Len(HeaderEntries(c_params.val)) = 2

(***************************************************************************)
(* C7: link names are injective: two functions that differ in owning type  *)
(* (possibly absent) or in name never get the same link symbol.            *)
(***************************************************************************)
C7_LinkNameInjective ==
    \A i, j \in Fns :
        (IsSome(link_names[i]) /\ IsSome(link_names[j])
            /\ functions[i] # functions[j])
          => link_names[i] # link_names[j]

C7_Witness ==
    /\ IsSome(link_names[1])
    /\ IsSome(link_names[2])
    /\ functions[1] = [associated_type |-> Some("a"), ident |-> "_a"]
    /\ functions[2] = [associated_type |-> Some("a_"), ident |-> "a"]
    /\ link_names[1] = Some("__swift_bridge__$a$_a")
    /\ link_names[2] = Some("__swift_bridge__$a_$a")

(***************************************************************************)
(* C8: prefixed identifiers are unique per function: two functions that    *)
(* differ in owning type (possibly absent) or in name never get the same   *)
(* prefixed identifier.                                                    *)
(***************************************************************************)
C8_PrefixedFnNameInjective ==
    \A i, j \in Fns :
        (IsSome(prefixed_names[i]) /\ IsSome(prefixed_names[j])
            /\ functions[i] # functions[j])
          => prefixed_names[i] # prefixed_names[j]

(***************************************************************************)
(* C9: no lowering operation panics, whatever the parameter types, as      *)
(* long as an owning type is set whenever there is a receiver.             *)
(***************************************************************************)
C9_LoweringIsTotal ==
    (is_method(func) => IsSome(func.associated_type)) =>
        /\ rust_params.status # "panic"
        /\ call_args.status # "panic"
        /\ c_params.status # "panic"
        /\ c_return.status # "panic"

(***************************************************************************)
(* C10: the three artifacts agree on the receiver handle: entry i of the   *)
(* ABI list is the pointer `this` exactly when entry i of the header is    *)
(* `void* self`, and exactly those positions have no call argument.        *)
(***************************************************************************)
AbiThisPositions ==
    {i \in 1..Len(rust_params.val) :
        rust_params.val[i].name = "this" /\ rust_params.val[i].ptr}

HeaderSelfPositions ==
    {i \in 1..Len(HeaderEntries(c_params.val)) :
        HeaderEntries(c_params.val)[i] = <<"void*", "self">>}

C10_ArtifactsAgreeOnReceiverSlot ==
    (rust_params.status = "ok" /\ c_params.status = "ok"
        /\ call_args.status = "ok" /\ Len(inputs) >= 1) =>
        /\ AbiThisPositions = HeaderSelfPositions
        /\ Positions \ AbiThisPositions = NonSelfPositions
        /\ Len(call_args.val) = Cardinality(Positions \ AbiThisPositions)

====
